---------------------------- MODULE Spec2Model ----------------------------
(***************************************************************************)
(* The post feed handlers of convex/posts.ts (generateUploadUrl,           *)
(* createPost, getFeedPosts, toggleLike, deletePost) as a state machine    *)
(* over the tables they read and write.  Every handler is one atomic       *)
(* action: a Convex mutation is a transaction, and a thrown error rolls    *)
(* it back, so a failing call changes no table.                            *)
(*                                                                         *)
(* Tables whose rows carry no data beyond their keys (likes, comments,     *)
(* bookmarks, notifications) are bags of rows: a row's _id is used only to *)
(* delete that very row, so a table is the multiset of its rows' fields.   *)
(* A post's caption is payload no handler reads; it is left out.           *)
(***************************************************************************)
EXTENDS Integers, Sequences, FiniteSets, Bags, TLC

\* ---- bounds of the model ----
MaxPosts == 2          \* posts ever created (post ids are never reused)
MaxUploads == 1        \* upload URLs issued plus files ever uploaded
MaxNotifications == 2  \* rows of the notifications table
MaxComments == 1       \* rows of the comments table
MaxBookmarks == 1      \* rows of the bookmarks table

Users == {"u1", "u2"}              \* _id of the rows of the users table
Identities == Users \cup {"u3"}    \* signed-in identities; u3 has no users row
NoIdentity == "anonymous"          \* ctx.auth.getUserIdentity() returns null
Callers == Identities \cup {NoIdentity}
PostIds == 1..MaxPosts
StorageIds == 1..MaxUploads

OK == "ok"
Unauthorized == "Unauthorized"
UserNotFound == "User not found"
ImageNotFound == "Image not found"
PostNotFound == "Post not found"
NotOwner == "Not authorized to delete this post"
FileNotFound == "storage: no such file"   \* ctx.storage.delete rejecting an id

VARIABLES
    users,          \* users table: [Users -> [posts: Nat]]
    posts,          \* posts table: function from the ids of existing posts to rows
    likes,          \* likes table: bag of [userId, postId]
    comments,       \* comments table: bag of [userId, postId]
    bookmarks,      \* bookmarks table: bag of [userId, postId]
    notifications,  \* notifications table: bag of [receiverId, senderId, type, postId]
    storage,        \* file storage: the storage ids that resolve to a file
    uploadUrls,     \* upload URLs issued and not yet used
    nextPostId,     \* id the next inserted post gets
    nextStorageId,  \* id the next uploaded file gets
    last            \* the last call: [op, caller, arg, status, ret, before]

db == <<users, posts, likes, comments, bookmarks, notifications, storage,
        uploadUrls, nextPostId, nextStorageId>>
vars == <<users, posts, likes, comments, bookmarks, notifications, storage,
          uploadUrls, nextPostId, nextStorageId, last>>

\* the record of a call: who called what with which argument, how it ended (OK or
\* the message thrown), what it returned, and what it found before it wrote
Call(op, c, arg, status, ret) ==
    [op |-> op, caller |-> c, arg |-> arg, status |-> status, ret |-> ret,
     before |-> <<>>]

\* a handler that throws: the transaction is rolled back, only the outcome is seen
Throw(op, c, arg, msg) ==
    /\ last' = Call(op, c, arg, msg, <<>>)
    /\ UNCHANGED db

\* ---- rows and indexed lookups ----
Row(u, p) == [userId |-> u, postId |-> p]

\* .withIndex("by_post", q => q.eq("postId", p)).collect() on a bag of rows
ByPost(table, p) ==
    LET D == {r \in BagToSet(table) : r.postId = p}
    IN  [r \in D |-> table[r]]

Has(table, row) == CopiesIn(row, table) > 0

Insert(table, row) == table (+) SetToBag({row})

\* ctx.db.delete(row._id) of one row found by an indexed lookup
Delete(table, row) == table (-) SetToBag({row})

Max(a, b) == IF a >= b THEN a ELSE b

\* ---- authentication ----
\* const identity = await ctx.auth.getUserIdentity(); if (!identity) throw ...
\* (variant: the identity is never checked)
HasIdentityAlways(c) == TRUE

HasIdentity(c) == c # NoIdentity

\* users.withIndex("by_clerk_id", q => q.eq("clerkId", identity.subject)).first()
HasUser(c) == c \in DOMAIN users

\* getAunthenticatedUser of convex/users.ts: the caller's users row, or the error thrown
getAunthenticatedUser(c) ==
    IF c = NoIdentity THEN Unauthorized
    ELSE IF c \notin DOMAIN users THEN UserNotFound
    ELSE OK

\* ---- generateUploadUrl ----
GenerateUploadUrl(c) ==
    IF ~HasIdentity(c)
    THEN Throw("generateUploadUrl", c, 0, Unauthorized)
    ELSE /\ uploadUrls + (nextStorageId - 1) < MaxUploads
         /\ uploadUrls' = uploadUrls + 1
         /\ last' = Call("generateUploadUrl", c, 0, OK, <<>>)
         /\ UNCHANGED <<users, posts, likes, comments, bookmarks, notifications,
                        storage, nextPostId, nextStorageId>>

\* the client posts the image to an issued URL and gets a storage id back
Upload ==
    /\ uploadUrls > 0
    /\ uploadUrls' = uploadUrls - 1
    /\ storage' = storage \cup {nextStorageId}
    /\ nextStorageId' = nextStorageId + 1
    /\ last' = Call("upload", NoIdentity, nextStorageId, OK, <<>>)
    /\ UNCHANGED <<users, posts, likes, comments, bookmarks, notifications,
                   nextPostId>>

\* ---- createPost ----
\* ctx.storage.getUrl(storageId): the file's URL, or null when no such file is stored
ImageUrl(s) == IF s \in storage THEN <<"url", s>> ELSE <<>>

NewPost(u, s) ==
    [userId |-> u, imageUrl |-> ImageUrl(s), storageId |-> s, likes |-> 0, comments |-> 0]

\* (variant: the post count is written back as read)
PostsNotIncremented(user) == [user EXCEPT !.posts = user.posts]

PostsIncremented(user) == [user EXCEPT !.posts = user.posts + 1]

CreatePost(c, s) ==
    IF ~HasIdentity(c) THEN Throw("createPost", c, s, Unauthorized)
    ELSE IF ~HasUser(c) THEN Throw("createPost", c, s, UserNotFound)
    ELSE IF ImageUrl(s) = <<>> THEN Throw("createPost", c, s, ImageNotFound)
    ELSE /\ nextPostId <= MaxPosts
         /\ posts' = [q \in DOMAIN posts \cup {nextPostId} |->
                        IF q = nextPostId THEN NewPost(c, s) ELSE posts[q]]
         /\ nextPostId' = nextPostId + 1
         /\ users' = [users EXCEPT ![c] = PostsIncremented(users[c])]
         /\ last' = Call("createPost", c, s, OK, <<nextPostId>>)
         /\ UNCHANGED <<likes, comments, bookmarks, notifications, storage,
                        uploadUrls, nextStorageId>>

\* ---- toggleLike ----
\* likes.withIndex("by_user_and_post", q => q.eq("userId", u).eq("postId", p)).first()
ExistingLike(u, p) == Has(likes, Row(u, p))

\* (variant: the like row is deleted and the counter kept)
UnlikedNoDecrement(post) == [post EXCEPT !.likes = post.likes]

Unliked(post) == [post EXCEPT !.likes = post.likes - 1]

\* (variant: the counter is raised by two)
LikedTwice(post) == [post EXCEPT !.likes = post.likes + 2]

Liked(post) == [post EXCEPT !.likes = post.likes + 1]

\* (variant: the owner is notified of the own like too)
NotifyAlways(u, post) == TRUE

\* if this is not my post then create a notification
ShouldNotify(u, post) == u # post.userId

LikeNotification(u, post, p) ==
    [receiverId |-> post.userId, senderId |-> u, type |-> "like", postId |-> p]

\* what this toggleLike(p) by u found (like counter, like row), after what the
\* call just before it found when that was a successful toggleLike(p) by u too
Found(u, p) ==
    LET rec == [likes |-> posts[p].likes, liked |-> ExistingLike(u, p)]
    IN  IF /\ last.op = "toggleLike" /\ last.status = OK
           /\ last.caller = u /\ last.arg = p
        THEN <<last.before[Len(last.before)], rec>>
        ELSE <<rec>>

ToggleLike(c, p) ==
    IF getAunthenticatedUser(c) # OK
    THEN Throw("toggleLike", c, p, getAunthenticatedUser(c))
    ELSE IF p \notin DOMAIN posts THEN Throw("toggleLike", c, p, PostNotFound)
    ELSE LET post == posts[p] IN
         /\ IF ExistingLike(c, p)
            THEN /\ likes' = Delete(likes, Row(c, p))
                 /\ posts' = [posts EXCEPT ![p] = Unliked(post)]
                 /\ UNCHANGED notifications
                 /\ last' = [Call("toggleLike", c, p, OK, <<FALSE>>) EXCEPT
                                !.before = Found(c, p)]
            ELSE /\ likes' = Insert(likes, Row(c, p))
                 /\ posts' = [posts EXCEPT ![p] = Liked(post)]
                 /\ IF ShouldNotify(c, post)
                    THEN /\ BagCardinality(notifications) < MaxNotifications
                         /\ notifications' =
                                Insert(notifications, LikeNotification(c, post, p))
                    ELSE UNCHANGED notifications
                 /\ last' = [Call("toggleLike", c, p, OK, <<TRUE>>) EXCEPT
                                !.before = Found(c, p)]
         /\ UNCHANGED <<users, comments, bookmarks, storage, uploadUrls,
                        nextPostId, nextStorageId>>

\* ---- deletePost ----
\* (variant: ownership is not verified)
OwnerAnyone(post, u) == TRUE

\* verify ownership
IsOwner(post, u) == post.userId = u

\* (variant: the post's likes are left behind)
PostLikesNone(p) == EmptyBag

\* likes.withIndex("by_post", q => q.eq("postId", p)).collect()
PostLikes(p) == ByPost(likes, p)

PostComments(p) == ByPost(comments, p)

\* (variant: the post's bookmarks are left behind)
PostBookmarksNone(p) == EmptyBag

PostBookmarks(p) == ByPost(bookmarks, p)

\* posts: Math.max(0, 2)
PostsDecremented(user) == [user EXCEPT !.posts = Max(0, 2)]

DeletePost(c, p) ==
    IF getAunthenticatedUser(c) # OK
    THEN Throw("deletePost", c, p, getAunthenticatedUser(c))
    ELSE IF p \notin DOMAIN posts THEN Throw("deletePost", c, p, PostNotFound)
    ELSE IF ~IsOwner(posts[p], c) THEN Throw("deletePost", c, p, NotOwner)
    ELSE \/ /\ likes' = likes (-) PostLikes(p)
            /\ comments' = comments (-) PostComments(p)
            /\ bookmarks' = bookmarks (-) PostBookmarks(p)
            /\ storage' = storage \ {posts[p].storageId}
            /\ posts' = [q \in DOMAIN posts \ {p} |-> posts[q]]
            /\ users' = [users EXCEPT ![c] = PostsDecremented(users[c])]
            /\ last' = [Call("deletePost", c, p, OK, <<>>) EXCEPT
                           !.before = <<[post |-> posts[p],
                                         likes |-> BagCardinality(ByPost(likes, p)),
                                         comments |-> BagCardinality(ByPost(comments, p)),
                                         bookmarks |-> BagCardinality(ByPost(bookmarks, p))]>>]
            /\ UNCHANGED <<notifications, uploadUrls, nextPostId, nextStorageId>>
         \* the file is already gone (another post of the same storageId was
         \* deleted): ctx.storage.delete either ignores that, as above, or throws
         \/ /\ posts[p].storageId \notin storage
            /\ Throw("deletePost", c, p, FileNotFound)

\* ---- getFeedPosts ----
RECURSIVE Descending(_)
\* ctx.db.query("posts").order("desc").collect(): newest first
Descending(ids) ==
    IF ids = {} THEN <<>>
    ELSE LET newest == CHOOSE x \in ids : \A y \in ids : y <= x
         IN  <<newest>> \o Descending(ids \ {newest})

\* (variant: the like is looked up by post only)
IsLikedByAnyone(u, p) == \E w \in Users : Has(likes, Row(w, p))

\* likes.withIndex("by_user_and_post", ...).first(), as !!like
IsLiked(u, p) == Has(likes, Row(u, p))

IsBookmarked(u, p) == Has(bookmarks, Row(u, p))

\* one entry of the feed of user u; the author is the users row of the post's userId
PostWithInfo(u, p) ==
    [_id |-> p, userId |-> posts[p].userId, imageUrl |-> posts[p].imageUrl,
     storageId |-> posts[p].storageId, likes |-> posts[p].likes,
     comments |-> posts[p].comments,
     author |-> IF posts[p].userId \in DOMAIN users THEN <<posts[p].userId>> ELSE <<>>,
     isLiked |-> IsLiked(u, p), isBookmarked |-> IsBookmarked(u, p)]

\* the feed user u gets
Feed(u) ==
    LET order == Descending(DOMAIN posts)
    IN  [i \in 1..Len(order) |-> PostWithInfo(u, order[i])]

GetFeedPosts(c) ==
    IF getAunthenticatedUser(c) # OK
    THEN Throw("getFeedPosts", c, 0, getAunthenticatedUser(c))
    ELSE /\ last' = Call("getFeedPosts", c, 0, OK, Feed(c))
         /\ UNCHANGED db

\* ---- the handlers of the comments and bookmarks tables ----
AddComment(c, p) ==
    IF getAunthenticatedUser(c) # OK
    THEN Throw("addComment", c, p, getAunthenticatedUser(c))
    ELSE IF p \notin DOMAIN posts THEN Throw("addComment", c, p, PostNotFound)
    ELSE /\ BagCardinality(comments) < MaxComments
         /\ comments' = Insert(comments, Row(c, p))
         /\ posts' = [posts EXCEPT ![p].comments = posts[p].comments + 1]
         /\ last' = Call("addComment", c, p, OK, <<>>)
         /\ UNCHANGED <<users, likes, bookmarks, notifications, storage, uploadUrls,
                        nextPostId, nextStorageId>>

ToggleBookmark(c, p) ==
    IF getAunthenticatedUser(c) # OK
    THEN Throw("toggleBookmark", c, p, getAunthenticatedUser(c))
    ELSE IF p \notin DOMAIN posts THEN Throw("toggleBookmark", c, p, PostNotFound)
    ELSE /\ IF Has(bookmarks, Row(c, p))
            THEN /\ bookmarks' = Delete(bookmarks, Row(c, p))
                 /\ last' = Call("toggleBookmark", c, p, OK, <<FALSE>>)
            ELSE /\ BagCardinality(bookmarks) < MaxBookmarks
                 /\ bookmarks' = Insert(bookmarks, Row(c, p))
                 /\ last' = Call("toggleBookmark", c, p, OK, <<TRUE>>)
         /\ UNCHANGED <<users, posts, likes, comments, notifications, storage,
                        uploadUrls, nextPostId, nextStorageId>>

\* ---- the state machine ----
Init ==
    /\ users = [u \in Users |-> [posts |-> 0]]
    /\ posts = << >>
    /\ likes = EmptyBag
    /\ comments = EmptyBag
    /\ bookmarks = EmptyBag
    /\ notifications = EmptyBag
    /\ storage = {}
    /\ uploadUrls = 0
    /\ nextPostId = 1
    /\ nextStorageId = 1
    /\ last = Call("init", NoIdentity, 0, OK, <<>>)

Next ==
    \/ \E c \in Callers : GenerateUploadUrl(c)
    \/ Upload
    \/ \E c \in Callers, s \in StorageIds : CreatePost(c, s)
    \/ \E c \in Callers : GetFeedPosts(c)
    \/ \E c \in Callers, p \in PostIds : ToggleLike(c, p)
    \/ \E c \in Callers, p \in PostIds : DeletePost(c, p)
    \/ \E c \in Callers, p \in PostIds : AddComment(c, p)
    \/ \E c \in Callers, p \in PostIds : ToggleBookmark(c, p)

Spec == Init /\ [][Next]_vars

\* ---- what the claims speak of ----
Mutations == {"generateUploadUrl", "createPost", "toggleLike", "deletePost"}

\* the step just taken is a call of op that returned
Returned(op) == last'.op = op /\ last'.status = OK

LikeRows(p) == BagCardinality(ByPost(likes, p))

\* the step just taken is a call of a handler that takes post p as its argument
Touches(p) ==
    /\ last'.op \in {"toggleLike", "deletePost", "addComment", "toggleBookmark"}
    /\ last'.arg = p

\* C1: two successful toggleLike(p) calls in a row by one user leave p.likes and the
\* existence of the user's Like row for p as the first call found them; and a call
\* that is not on p leaves the row of p and the Like rows of p alone, so calls on
\* other posts in between change nothing of this.
ToggleLikeTwiceRestores ==
    /\ []((last.op = "toggleLike" /\ last.status = OK /\ Len(last.before) = 2) =>
            /\ last.arg \in DOMAIN posts
            /\ posts[last.arg].likes = last.before[1].likes
            /\ ExistingLike(last.caller, last.arg) = last.before[1].liked)
    /\ [][\A p \in DOMAIN posts :
            ~Touches(p) =>
                /\ p \in DOMAIN posts'
                /\ posts'[p] = posts[p]
                /\ ByPost(likes', p) = ByPost(likes, p)]_vars

\* a user took a like back from a post with two likes and gave it again at once
ToggledTwiceWitness ==
    /\ last.op = "toggleLike" /\ last.status = OK /\ Len(last.before) = 2
    /\ last.before[1].liked /\ last.before[1].likes = 2

\* C2: after a successful deletePost(p) the post is gone, no like, comment or bookmark
\* row refers to p, and the file of p's storageId is no longer stored.
DeletePostCascades ==
    (last.op = "deletePost" /\ last.status = OK) =>
        /\ last.arg \notin DOMAIN posts
        /\ ByPost(likes, last.arg) = EmptyBag
        /\ ByPost(comments, last.arg) = EmptyBag
        /\ ByPost(bookmarks, last.arg) = EmptyBag
        /\ last.before[1].post.storageId \notin storage

\* a post with two likes, a comment and a bookmark has been deleted
CascadeWitness ==
    /\ last.op = "deletePost" /\ last.status = OK
    /\ last.before[1].likes = 2
    /\ last.before[1].comments >= 1
    /\ last.before[1].bookmarks >= 1

\* C3: a successful createPost by u inserts exactly one post, owned by u, with
\* likes = 0 and comments = 0, and adds one to u's post count and to no other's.
CreatePostAddsOne ==
    [][Returned("createPost") =>
        LET u == last'.caller
            new == DOMAIN posts' \ DOMAIN posts
        IN  /\ Cardinality(new) = 1
            /\ DOMAIN posts \subseteq DOMAIN posts'
            /\ \A q \in DOMAIN posts : posts'[q] = posts[q]
            /\ \A q \in new : /\ posts'[q].userId = u
                              /\ posts'[q].likes = 0
                              /\ posts'[q].comments = 0
                              /\ last'.ret = <<q>>
            /\ users'[u].posts = users[u].posts + 1
            /\ \A w \in Users \ {u} : users'[w] = users[w]]_vars

\* a second post has been created while the other user owns a post
CreatedWitness ==
    /\ last.op = "createPost" /\ last.status = OK
    /\ Cardinality(DOMAIN posts) = 2
    /\ \E q \in DOMAIN posts : posts[q].userId # last.caller

\* C4: a mutation called without an identity throws "Unauthorized" and leaves
\* every table, the file storage and the issued upload URLs as they were.
UnauthenticatedChangesNothing ==
    [][(last'.caller = NoIdentity /\ last'.op \in Mutations) =>
        (last'.status = Unauthorized /\ UNCHANGED db)]_vars

\* an unauthenticated deletePost of an existing, liked post has been refused
UnauthenticatedWitness ==
    /\ last.caller = NoIdentity /\ last.op = "deletePost"
    /\ last.status = Unauthorized
    /\ last.arg \in DOMAIN posts
    /\ posts[last.arg].likes > 0

\* C5: every existing post's likes counter is the number of Like rows of the post.
LikesMirrorLikeRows ==
    \A p \in DOMAIN posts : posts[p].likes = LikeRows(p) /\ posts[p].likes >= 0

\* a like has been taken back from a post that another like remains on
MirrorWitness ==
    /\ last.op = "toggleLike" /\ last.status = OK /\ last.ret = <<FALSE>>
    /\ last.arg \in DOMAIN posts
    /\ posts[last.arg].likes = 1
    /\ Cardinality(DOMAIN posts) = 2

\* C6: deletePost of an existing post by a user who does not own it throws
\* "Not authorized to delete this post" and changes nothing; a post is only ever
\* removed by a deletePost of its owner.
OnlyOwnerDeletes ==
    [][/\ (/\ last'.op = "deletePost"
           /\ last'.caller \in Users
           /\ last'.arg \in DOMAIN posts
           /\ posts[last'.arg].userId # last'.caller)
          => (last'.status = NotOwner /\ UNCHANGED db)
       /\ \A p \in DOMAIN posts \ DOMAIN posts' :
            /\ Returned("deletePost")
            /\ last'.arg = p
            /\ last'.caller = posts[p].userId]_vars

\* a user has been refused the deletion of another user's liked, commented post
NotOwnerWitness ==
    /\ last.op = "deletePost" /\ last.status = NotOwner
    /\ last.arg \in DOMAIN posts
    /\ posts[last.arg].likes > 0
    /\ posts[last.arg].comments > 0

\* C7: a successful deletePost by u leaves u.posts = max(0, previous u.posts - 1).
DeletePostDecrementsCount ==
    [][Returned("deletePost") =>
        users'[last'.caller].posts = Max(0, users[last'.caller].posts - 1)]_vars

\* C8: toggleLike(p) by u inserts a notification only when it adds a like and u is
\* not p's owner: then exactly one, [receiver p's owner, sender u, "like", p]; it
\* never deletes one.
ToggleLikeNotifies ==
    [][Returned("toggleLike") =>
        LET u == last'.caller
            p == last'.arg
        IN  IF last'.ret = <<TRUE>> /\ u # posts[p].userId
            THEN notifications' = Insert(notifications,
                    [receiverId |-> posts[p].userId, senderId |-> u,
                     type |-> "like", postId |-> p])
            ELSE notifications' = notifications]_vars

\* an owner has liked the own post after another user's like was notified
NotifyWitness ==
    /\ last.op = "toggleLike" /\ last.status = OK /\ last.ret = <<TRUE>>
    /\ last.arg \in DOMAIN posts
    /\ posts[last.arg].userId = last.caller
    /\ posts[last.arg].likes = 2
    /\ BagCardinality(notifications) = 1

\* C9: toggleLike(p) by u returns whether u's Like row for p exists after it; the
\* feed u gets lists every post, each with isLiked telling whether that row exists;
\* the row of a new post does not exist and nothing but u's own toggleLike(p) makes
\* or removes it while p exists; getFeedPosts returns that feed and writes nothing.
FeedAgreesWithToggleLike ==
    /\ [](\A u \in Users :
            LET feed == Feed(u) IN
            /\ {feed[i]._id : i \in 1..Len(feed)} = DOMAIN posts
            /\ \A i \in 1..Len(feed) : feed[i].isLiked = ExistingLike(u, feed[i]._id))
    /\ [][\A u \in Users :
            /\ \A p \in DOMAIN posts' :
                IF Returned("toggleLike") /\ last'.caller = u /\ last'.arg = p
                THEN last'.ret = <<Has(likes', Row(u, p))>>
                ELSE IF p \in DOMAIN posts
                THEN Has(likes', Row(u, p)) = ExistingLike(u, p)
                ELSE ~Has(likes', Row(u, p))
            /\ (Returned("getFeedPosts") /\ last'.caller = u) =>
                    (UNCHANGED db /\ last'.ret = Feed(u))]_vars

\* a user got a feed of two posts, one liked by that user only and one by the other only
FeedWitness ==
    /\ last.op = "getFeedPosts" /\ last.status = OK
    /\ Len(last.ret) = 2
    /\ last.ret[1].isLiked /\ last.ret[1].likes = 1
    /\ ~last.ret[2].isLiked /\ last.ret[2].likes = 1

\* C10: no (userId, postId) pair has two Like rows, and every Like row's post exists.
LikeRowsUniqueAndLive ==
    \A row \in BagToSet(likes) :
        /\ CopiesIn(row, likes) = 1
        /\ row.postId \in DOMAIN posts

\* a post with two likes has been deleted while the other post keeps its two likes
UniqueWitness ==
    /\ last.op = "deletePost" /\ last.status = OK
    /\ last.before[1].likes = 2
    /\ BagCardinality(likes) = 2
====
